---- MODULE Spec2Model ----
(***************************************************************************)
(* Publisher Final Delivery: the Streamlit session (app.py) around the     *)
(* IngestionEngine (engine.py): keyword normalisation, the Clean Room      *)
(* validator, and the six-section package compiler.                        *)
(*                                                                         *)
(* A Python str is modelled as a sequence of one-character strings, so     *)
(* that strip, split, count, lower, title and the substring test "in" are  *)
(* computed character by character, as the interpreter computes them.      *)
(***************************************************************************)
EXTENDS Integers, Sequences, FiniteSets, TLC

VARIABLES
    app_data,         \* st.session_state.app_data
    ingestion_error,  \* st.session_state.ingestion_error
    banned_file,      \* 02_VOICE_GUIDES/Banned_Keywords.txt as the engine finds it
    report,           \* what Tab 07 shows of validate_data's result
    download,         \* the archive Tab 07 offers for download
    batch,            \* the last "Run AI Analysis" run: per uploaded file, what happened
    notice            \* the st.success message of Tab 00 on the page

vars == <<app_data, ingestion_error, banned_file, report, download, batch, notice>>

-----------------------------------------------------------------------------
(* Bounds of the model.                                                    *)

MaxTracks == 1
MaxBatch == 2
MaxValidateTracks == 2
MaxDescLen == 3
MaxKwLen == 5

-----------------------------------------------------------------------------
(* Python values.                                                          *)

\* None: a cell of the data editor that was never filled in.
None == <<"None">>
EmptyStr == <<>>

Whitespace == {" ", "\t", "\n"}

\* The characters the model's texts are written in.
LowerLetters == {"a", "b", "c", "d", "e", "f", "g", "h", "i", "j", "k", "l", "m", 
                 "n", "o", "p", "q", "r", "s", "t", "u", "v", "w", "x", "y", "z"}
CasePairs == {<<"a", "A">>, <<"b", "B">>, <<"c", "C">>, <<"d", "D">>, <<"e", "E">>,
              <<"f", "F">>, <<"g", "G">>, <<"h", "H">>, <<"i", "I">>, <<"j", "J">>,
              <<"k", "K">>, <<"l", "L">>, <<"m", "M">>, <<"n", "N">>, <<"o", "O">>,
              <<"p", "P">>, <<"q", "Q">>, <<"r", "R">>, <<"s", "S">>, <<"t", "T">>,
              <<"u", "U">>, <<"v", "V">>, <<"w", "W">>, <<"x", "X">>, <<"y", "Y">>,
              <<"z", "Z">>}
UpperLetters == {p[2] : p \in CasePairs}
Letters == LowerLetters \cup UpperLetters
\* \w of the re module: letters, digits and the underscore.
WordChars == Letters \cup {"0", "1", "_"}

\* str.lower() and str.upper() on one character.
Lower(c) == IF \E p \in CasePairs : p[2] = c
            THEN (CHOOSE p \in CasePairs : p[2] = c)[1] ELSE c
Upper(c) == IF \E p \in CasePairs : p[1] = c
            THEN (CHOOSE p \in CasePairs : p[1] = c)[2] ELSE c

LowerStr(s) == [i \in 1..Len(s) |-> Lower(s[i])]

SetMin(S) == CHOOSE x \in S : \A y \in S : x <= y
SetMax(S) == CHOOSE x \in S : \A y \in S : y <= x

\* The part of s from its first to its last character i with keep[i].
Trim(s, keep) ==
    LET idx == {i \in 1..Len(s) : keep[i]}
    IN IF idx = {} THEN <<>> ELSE SubSeq(s, SetMin(idx), SetMax(idx))

\* str.strip(): leading and trailing whitespace removed.
Strip(s) == Trim(s, [i \in 1..Len(s) |-> s[i] \notin Whitespace])

\* re.sub(r'^\W+|\W+$', '', s): the leading and the trailing run of non-word
\* characters removed.
StripNonWord(s) == Trim(s, [i \in 1..Len(s) |-> s[i] \in WordChars])

\* str.split(sep) for one-character separators (re.split(r'[,;]', s) for two):
\* every separator cuts, empty pieces are kept.
RECURSIVE SplitOn(_, _)
SplitOn(s, seps) ==
    IF \A i \in 1..Len(s) : s[i] \notin seps THEN <<s>>
    ELSE LET i == SetMin({j \in 1..Len(s) : s[j] \in seps})
         IN <<SubSeq(s, 1, i - 1)>> \o SplitOn(SubSeq(s, i + 1, Len(s)), seps)

NonEmpty(s) == s # <<>>

\* str.split() without a separator: runs of whitespace cut, no empty pieces.
SplitWords(s) == SelectSeq(SplitOn(s, Whitespace), NonEmpty)

\* str.count(c) for one character.
Count(s, c) == Cardinality({i \in 1..Len(s) : s[i] = c})

\* needle in hay, for two strs.
Contains(hay, needle) ==
    \E i \in 0..(Len(hay) - Len(needle)) : SubSeq(hay, i + 1, i + Len(needle)) = needle

\* bool(x) of a str or None.
Truthy(x) == x # None /\ x # EmptyStr

RECURSIVE Concat(_)
Concat(ss) == IF ss = <<>> THEN <<>> ELSE Head(ss) \o Concat(Tail(ss))

RECURSIVE JoinWith(_, _)
JoinWith(ss, sep) ==
    IF ss = <<>> THEN <<>>
    ELSE IF Len(ss) = 1 THEN ss[1]
    ELSE ss[1] \o sep \o JoinWith(Tail(ss), sep)

-----------------------------------------------------------------------------
(* The ban list.                                                           *)

global_bans == {<<"e", "p", "i", "c">>, <<"h", "u", "g", "e">>,
                <<"m", "a", "s", "s", "i", "v", "e">>,
                <<"a", "w", "e", "s", "o", "m", "e">>,
                <<"b", "a", "d", "a", "s", "s">>}

\* banned_file: [exists |-> BOOLEAN, lines |-> text.splitlines()].
AbsentFile == [exists |-> FALSE, lines |-> <<>>]

\* The set read from Banned_Keywords.txt: each non-blank line, stripped and
\* lowercased; nothing when the folder or the file is missing.
CatalogBans(file) ==
    IF file.exists
    THEN {LowerStr(Strip(file.lines[i])) :
            i \in {j \in 1..Len(file.lines) : Strip(file.lines[j]) # <<>>}}
    ELSE {}

\* validate_data's `banned`: the global words and the catalog's.
LoadBanned(file) == global_bans \cup CatalogBans(file)

-----------------------------------------------------------------------------
(* validate_data: the Clean Room validator.                                *)

\* One error message: the f-string's kind, and the title and the text it
\* interpolates.
Msg(kind, title, text) == [kind |-> kind, title |-> title, text |-> text]

NoTracksMsg == Msg("no_tracks", <<>>, <<>>)
AlbumDescMsg == Msg("album_description_banned", <<>>, <<>>)
AlbumNameMsg == Msg("album_name_banned", <<>>, <<>>)

\* kw.count(' ') > 2
TooManySpaces(kw) == Count(kw, " ") > 2

\* A ban test that only matches a text equal to a ban entry.
AnyBanIn_ExactOnly(text_lower, banned) == text_lower \in banned

\* any(b in text_lower for b in banned)
AnyBanIn(text_lower, banned) == \E b \in banned : Contains(text_lower, b)

Articles == {<<"a">>, <<"a", "n">>, <<"t", "h", "e">>}

\* The first word validate_data looks at, for a stripped non-empty description.
FirstWord(desc) == StripNonWord(LowerStr(SplitOn(desc, {" "})[1]))

\* The two checks of one keyword with the ban check under an elif.
KeywordChecks_Elif(errors, title, raw_kw, banned) ==
    LET kw == Strip(raw_kw)
    IN IF Count(kw, " ") > 2
       THEN Append(errors, Msg("too_many_spaces", title, kw))
       ELSE IF \E b \in banned : Contains(LowerStr(kw), b)
       THEN Append(errors, Msg("banned_word", title, kw)) ELSE errors

\* The two checks of one keyword, in the order of the code.
KeywordChecks(errors, title, raw_kw, banned) ==
    LET kw == Strip(raw_kw)
        e1 == IF TooManySpaces(kw)
              THEN Append(errors, Msg("too_many_spaces", title, kw)) ELSE errors
    IN IF AnyBanIn(LowerStr(kw), banned)
       THEN Append(e1, Msg("banned_word", title, kw)) ELSE e1

\* for kw in kw_str.split(','): ...
RECURSIVE KeywordLoop(_, _, _, _)
KeywordLoop(errors, title, kws, banned) ==
    IF kws = <<>> THEN errors
    ELSE KeywordLoop(KeywordChecks(errors, title, Head(kws), banned),
                     title, Tail(kws), banned)

\* The description check of one track (desc is a str here).
DescriptionCheck(errors, title, raw_desc) ==
    LET desc == Strip(raw_desc)
    IN IF desc # <<>> /\ FirstWord(desc) \in Articles
       THEN Append(errors, Msg("antigravity", title, FirstWord(desc)))
       ELSE errors

\* The body of the loop over tracks for one track: [raised, errors].
\* None is falsy, so a None keyword cell skips the keyword check; None has no
\* strip(), so a None description raises AttributeError.
TrackChecks(errors, track, banned) ==
    LET e1 == IF Truthy(track.Keywords)
              THEN KeywordLoop(errors, track.Title,
                               SplitOn(track.Keywords, {","}), banned)
              ELSE errors
    IN IF track.TrackDescription = None
       THEN [raised |-> TRUE, errors |-> e1]
       ELSE [raised |-> FALSE,
             errors |-> DescriptionCheck(e1, track.Title, track.TrackDescription)]

\* for i, track in enumerate(tracks): ...
RECURSIVE TrackLoop(_, _, _)
TrackLoop(errors, tracks, banned) ==
    IF tracks = <<>> THEN [raised |-> FALSE, errors |-> errors]
    ELSE LET r == TrackChecks(errors, Head(tracks), banned)
         IN IF r.raised THEN r ELSE TrackLoop(r.errors, Tail(tracks), banned)

\* The two album checks in the other order.
AlbumChecks_NameFirst(errors, data, banned) ==
    LET e1 == IF \E b \in banned : Contains(LowerStr(data.album_name), b)
              THEN Append(errors, AlbumNameMsg) ELSE errors
    IN IF \E b \in banned : Contains(LowerStr(data.album_description), b)
       THEN Append(e1, AlbumDescMsg) ELSE e1

\* The album description check, then the album name check.
AlbumChecks(errors, data, banned) ==
    LET e1 == IF AnyBanIn(LowerStr(data.album_description), banned)
              THEN Append(errors, AlbumDescMsg) ELSE errors
    IN IF AnyBanIn(LowerStr(data.album_name), banned)
       THEN Append(e1, AlbumNameMsg) ELSE e1

\* validate_data without its requirement check.
RequirementCheck_Skipped(errors, tracks) == errors

\* if not tracks: errors.append("ERROR: No track data found to export.")
RequirementCheck(errors, tracks) ==
    IF tracks = <<>> THEN Append(errors, NoTracksMsg) ELSE errors

\* validate_data(data): [raised, passed, errors]; raised when the call ends in
\* an exception instead of returning (passed, errors).
validate_data(data, file) ==
    LET banned == LoadBanned(file)
        t == TrackLoop(<<>>, data.tracks, banned)
        errors == RequirementCheck(AlbumChecks(t.errors, data, banned), data.tracks)
    IN IF t.raised
       THEN [raised |-> TRUE, passed |-> FALSE, errors |-> <<>>]
       ELSE [raised |-> FALSE, passed |-> Len(errors) = 0, errors |-> errors]

-----------------------------------------------------------------------------
(* process_keywords: the keyword normaliser.                               *)

\* str.title(): a letter is uppercased when the character before it is not a
\* letter, lowercased when it is; other characters are kept.
Title(s) ==
    [i \in 1..Len(s) |->
        IF s[i] \in Letters
        THEN IF i > 1 /\ s[i - 1] \in Letters THEN Lower(s[i]) ELSE Upper(s[i])
        ELSE s[i]]

\* One answer of model.generate_content: [raises, text].
RewriterRaises == [raises |-> TRUE, text |-> <<>>]
RewriterSays(text) == [raises |-> FALSE, text |-> text]

\* The answer to the k-th call of the rewriter: answers is what the model
\* returns call after call (the last one again, when calls outnumber it).
AnswerAt(answers, k) == IF k <= Len(answers) THEN answers[k] ELSE answers[Len(answers)]

\* The first loop appending nothing of a phrase whose rewrite failed.
Rewritten_EmptyOnFailure(kw, answer) ==
    IF answer.raises THEN <<>> ELSE Strip(answer.text)

\* What the first loop appends for a phrase it sent to the rewriter.
Rewritten(kw, answer) ==
    IF answer.raises THEN kw
    ELSE LET new_kw == Strip(answer.text) IN IF new_kw # <<>> THEN new_kw ELSE kw

\* The first loop: [corrected_keywords, calls], calls being the phrases the
\* rewriter was invoked for, in order.
RECURSIVE CorrectionLoop(_, _, _, _)
CorrectionLoop(corrected, calls, kw_list, answers) ==
    IF kw_list = <<>> THEN [corrected_keywords |-> corrected, calls |-> calls]
    ELSE LET kw == Head(kw_list)
         IN IF Count(kw, " ") > 2
            THEN CorrectionLoop(
                     Append(corrected, Rewritten(kw, AnswerAt(answers, Len(calls) + 1))),
                     Append(calls, kw), Tail(kw_list), answers)
            ELSE CorrectionLoop(Append(corrected, kw), calls, Tail(kw_list), answers)

\* The ban filter with the global bans tested as substrings too.
IsDropped_GlobalSubstring(kw, catalog_bans) ==
    \E ban \in global_bans \cup catalog_bans : Contains(LowerStr(kw), ban)

\* has_ban, and the two exact-match tests that follow it.
IsDropped(kw, catalog_bans) ==
    LET kw_lower == LowerStr(kw)
        words_in_kw == {SplitWords(kw_lower)[i] : i \in 1..Len(SplitWords(kw_lower))}
        has_ban == (\E ban \in global_bans : ban \in words_in_kw)
                   \/ (\E ban \in catalog_bans : Contains(kw_lower, ban))
    IN has_ban \/ kw_lower \in global_bans \/ kw_lower \in catalog_bans

\* The final form without the cut to three words.
FinalKeyword_NoTruncate(kw) == Title(kw)

\* The final form of a phrase that survives the ban filter.
FinalKeyword(kw) ==
    LET parts == SplitWords(LowerStr(kw))
    IN IF Len(parts) > 3
       THEN Title(JoinWith(SubSeq(parts, 1, 3), <<" ">>))
       ELSE Title(kw)

\* The second loop leaving out a phrase whose final form it already holds.
RECURSIVE FilterLoop_Dedup(_, _, _)
FilterLoop_Dedup(final_keywords, corrected, catalog_bans) ==
    IF corrected = <<>> THEN final_keywords
    ELSE FilterLoop_Dedup(
             IF \/ IsDropped(Head(corrected), catalog_bans)
                \/ \E i \in 1..Len(final_keywords) :
                      final_keywords[i] = FinalKeyword(Head(corrected))
             THEN final_keywords
             ELSE Append(final_keywords, FinalKeyword(Head(corrected))),
             Tail(corrected), catalog_bans)

\* The second loop.
RECURSIVE FilterLoop(_, _, _)
FilterLoop(final_keywords, corrected, catalog_bans) ==
    IF corrected = <<>> THEN final_keywords
    ELSE FilterLoop(IF IsDropped(Head(corrected), catalog_bans)
                    THEN final_keywords
                    ELSE Append(final_keywords, FinalKeyword(Head(corrected))),
                    Tail(corrected), catalog_bans)

StripAll(ss) == [i \in 1..Len(ss) |-> Strip(ss[i])]

\* process_keywords(keywords_raw, ...): result is the str it returns; calls,
\* kw_list and corrected_keywords are what the run did on the way.
process_keywords(keywords_raw, file, answers) ==
    IF keywords_raw = <<>>
    THEN [result |-> <<>>, calls |-> <<>>, kw_list |-> <<>>, corrected_keywords |-> <<>>]
    ELSE LET kw_list == SelectSeq(StripAll(SplitOn(keywords_raw, {",", ";"})), NonEmpty)
             c == CorrectionLoop(<<>>, <<>>, kw_list, answers)
         IN [result |-> JoinWith(FilterLoop(<<>>, c.corrected_keywords, CatalogBans(file)),
                                 <<",", " ">>),
             calls |-> c.calls,
             kw_list |-> kw_list,
             corrected_keywords |-> c.corrected_keywords]

-----------------------------------------------------------------------------
(* analyze_audio_file and call_gemini: the calls to the generative model.  *)

\* A dict is a function from its keys; {} is the function of no key.
EmptyDict == [k \in {} |-> <<>>]
Get(d, k, default) == IF k \in DOMAIN d THEN d[k] ELSE default

\* What analyze_audio_file returns: None, or the value json.loads produced.
NoResult == [type |-> "none"]
DictResult(d) == [type |-> "dict", d |-> d]
ListResult == [type |-> "list"]

\* One run of the external calls of analyze_audio_file:
\*   kind "upload_error"   genai.upload_file raises
\*   kind "file_failed"    the uploaded file ends in state FAILED
\*   kind "generate_error" model.generate_content raises
\*   kind "bad_json"       json.loads raises on the generated text
\*   kind "json"           json.loads returns `value` (a dict or a list)
\* answers: what the rewriter returns, should process_keywords call it.
Outcome(kind, value, answers) == [kind |-> kind, value |-> value, answers |-> answers]

\* analyze_audio_file returning the metadata as json.loads gave it.
analyze_audio_file_RawKeywords(o, file) ==
    IF o.kind # "json" THEN NoResult
    ELSE IF o.value.type = "list" THEN ListResult
    ELSE DictResult(o.value.d)

analyze_audio_file(o, file) ==
    IF o.kind # "json" THEN NoResult
    ELSE IF o.value.type = "list" THEN ListResult
    ELSE LET metadata == o.value.d
         IN IF "Keywords" \in DOMAIN metadata /\ Truthy(metadata.Keywords)
            THEN DictResult([metadata EXCEPT !.Keywords =
                                process_keywords(metadata.Keywords, file, o.answers).result])
            ELSE DictResult(metadata)

\* The run of process_keywords that analyze_audio_file makes for outcome o,
\* when it makes one.
KeywordsRun(o, file) ==
    IF /\ o.kind = "json"
       /\ o.value.type = "dict"
       /\ "Keywords" \in DOMAIN o.value.d
       /\ Truthy(o.value.d.Keywords)
    THEN [called |-> TRUE, raw |-> o.value.d.Keywords,
          run |-> process_keywords(o.value.d.Keywords, file, o.answers)]
    ELSE [called |-> FALSE, raw |-> <<>>, run |-> process_keywords(<<>>, file, o.answers)]

\* "Error: " followed by str(e), for an exception whose text is "x".
ErrorText == <<"E", "r", "r", "o", "r", ":", " ", "x">>

\* call_gemini: res.text.strip(), or the error string when generate_content
\* raises. g is one answer of the model: [raises, text].
call_gemini(g) == IF g.raises THEN ErrorText ELSE Strip(g.text)

-----------------------------------------------------------------------------
(* compile_final_package: the archive, as the sequence of its entries.     *)

Entry(name, content) == [name |-> name, content |-> content]

\* One field of a CSV row as csv.writer (QUOTE_MINIMAL) writes it: None is
\* the empty field; a field holding the delimiter, the quote character or a
\* line break is quoted, its quote characters doubled.
RECURSIVE DoubleQuotes(_)
DoubleQuotes(s) ==
    IF s = <<>> THEN <<>>
    ELSE (IF Head(s) = "\"" THEN <<"\"", "\"">> ELSE <<Head(s)>>) \o DoubleQuotes(Tail(s))

CsvField(v) ==
    IF v = None THEN <<>>
    ELSE IF \E i \in 1..Len(v) : v[i] \in {",", "\"", "\n", "\r"}
         THEN <<"\"">> \o DoubleQuotes(v) \o <<"\"">>
         ELSE v

CsvLine(fields) == JoinWith(fields, <<",">>) \o <<"\n">>

\* The table with its rows in the reverse order of the list.
to_csv_Reversed(tracks, header, column) ==
    CsvLine(<<<<"T", "i", "t", "l", "e">>, header>>)
    \o Concat([i \in 1..Len(tracks) |->
                  CsvLine(<<CsvField(tracks[Len(tracks) + 1 - i].Title),
                            CsvField(tracks[Len(tracks) + 1 - i][column])>>)])

\* DataFrame(tracks)[[Title, column]].to_csv(index=False): the header line,
\* then one line per track in the order of the list.
to_csv(tracks, header, column) ==
    CsvLine(<<<<"T", "i", "t", "l", "e">>, header>>)
    \o Concat([i \in 1..Len(tracks) |->
                  CsvLine(<<CsvField(tracks[i].Title), CsvField(tracks[i][column])>>)])

KeywordsHeader == <<"K", "e", "y", "w", "o", "r", "d", "s">>
DescriptionHeader == <<"T", "r", "a", "c", "k", " ", "D", "e", "s", "c", "r", "i", "p",
                       "t", "i", "o", "n">>

\* The compiler leaving out the documents of the empty text fields.
compile_final_package_SkipEmpty(data) ==
    LET doc(name, text) == IF text = <<>> THEN <<>> ELSE <<Entry(name, text)>>
    IN (IF data.tracks # <<>>
        THEN <<Entry("01 Track Keywords/Track_Keywords.csv",
                     to_csv(data.tracks, KeywordsHeader, "Keywords")),
               Entry("02 Track Descriptions/Track_Descriptions.csv",
                     to_csv(data.tracks, DescriptionHeader, "TrackDescription"))>>
        ELSE <<>>)
       \o doc("03 Album Description/Album_Description.txt", data.album_description)
       \o doc("04 Album Name/Album_Name.txt", data.album_name)
       \o doc("05 Album Cover Art/MidJourney_Prompts.txt", data.cover_art)
       \o doc("06 MailChimp Intro/MailChimp_Copy.txt", data.mailchimp_intro)

compile_final_package(data) ==
    (IF data.tracks # <<>>
     THEN <<Entry("01 Track Keywords/Track_Keywords.csv",
                  to_csv(data.tracks, KeywordsHeader, "Keywords"))>>
     ELSE <<>>)
    \o (IF data.tracks # <<>>
        THEN <<Entry("02 Track Descriptions/Track_Descriptions.csv",
                     to_csv(data.tracks, DescriptionHeader, "TrackDescription"))>>
        ELSE <<>>)
    \o <<Entry("03 Album Description/Album_Description.txt", data.album_description),
         Entry("04 Album Name/Album_Name.txt", data.album_name),
         Entry("05 Album Cover Art/MidJourney_Prompts.txt", data.cover_art),
         Entry("06 MailChimp Intro/MailChimp_Copy.txt", data.mailchimp_intro)>>

-----------------------------------------------------------------------------
(* The texts the session is explored with.                                 *)

TxtOk == <<"o", "k">>
TxtTheOk == <<"T", "h", "e", " ", "o", "k">>
TxtHuger == <<"h", "u", "g", "e", "r">>
TxtTitle == <<"t">>
KwRawShort == <<"a", "b", ";", "c", "d">>
KwRawLong == <<"a", " ", "b", " ", "c", " ", "d", ",", "h", "u", "g", "e">>

\* The names of the uploaded files, in the order of the uploader's list.
UploadOrder == << <<"0", "1", " ", "a", ".", "m", "p", "3">>, <<"b", ".", "w", "a", "v">>,
                 <<"0", "3", "-", "c", ".", "d", ".", "m", "p", "3">>,
                 <<"d", ".", "m", "p", "3">> >>

\* What the user may type into a cell of the data editors; a description cell
\* may also be cleared, which leaves it None.
CellTitles == {TxtTitle}
CellKeywords == {TxtHuger}
CellDescriptions == {TxtTheOk, None}
\* What the user may type into the text areas of Tabs 03 and 04, and of
\* Tabs 05 and 06.
AlbumTexts == {<<>>, TxtOk}
PlainTexts == {TxtOk}

\* The answers of the generative model to call_gemini and to the rewriter.
GenFails == [raises |-> TRUE, text |-> <<>>]
GenAnswers == {GenFails, [raises |-> FALSE, text |-> <<" ", "o", "k", "\n">>]}
RewriterAnswers == {<<RewriterRaises>>, <<RewriterSays(<<"a", "b", " ", "c", "d">>)>>}

\* The metadata the analysis may come back with.
MetaFull == [Title |-> TxtTitle, Keywords |-> KwRawShort, Description |-> TxtTheOk]
MetaNoTitle == [Keywords |-> KwRawLong, Description |-> TxtOk]
MetaNulls == [Title |-> TxtTitle, Keywords |-> None, Description |-> None]

FailureKinds == {"upload_error", "file_failed", "generate_error", "bad_json"}

AnalysisOutcomes ==
    {Outcome(k, ListResult, <<RewriterRaises>>) : k \in FailureKinds}
    \cup {Outcome("json", ListResult, <<RewriterRaises>>),
          Outcome("json", DictResult(EmptyDict), <<RewriterRaises>>),
          Outcome("json", DictResult(MetaFull), <<RewriterRaises>>),
          Outcome("json", DictResult(MetaNulls), <<RewriterRaises>>)}
    \cup {Outcome("json", DictResult(MetaNoTitle), a) : a \in RewriterAnswers}

\* The outcomes the whole session is explored with.
SessionOutcomes ==
    {Outcome("bad_json", ListResult, <<RewriterRaises>>),
     Outcome("json", ListResult, <<RewriterRaises>>),
     Outcome("json", DictResult(MetaFull), <<RewriterRaises>>)}

-----------------------------------------------------------------------------
(* The session: app.py.                                                    *)

EmptyAppData == [tracks |-> <<>>, album_description |-> <<>>, album_name |-> <<>>,
                 cover_art |-> <<>>, mailchimp_intro |-> <<>>]

NoError == [set |-> FALSE, file |-> <<>>]
NoReport == [shown |-> FALSE, raised |-> FALSE, passed |-> FALSE, errors |-> <<>>]
NoDownload == [offered |-> FALSE, zip |-> <<>>]
NoNotice == ""
SessionCleared == "Session Cleared."
NoBatch == [ran |-> FALSE, files |-> <<>>, before |-> <<>>, items |-> <<>>]

\* Banned_Keywords.txt of the session: one entry and a blank line.
SessionBannedFile == [exists |-> TRUE, lines |-> << <<" ", "O", "k", " ">>, <<" ">> >>]

Init ==
    /\ app_data = EmptyAppData
    /\ ingestion_error = NoError
    /\ banned_file = SessionBannedFile
    /\ report = NoReport
    /\ download = NoDownload
    /\ batch = NoBatch
    /\ notice = NoNotice

\* A page other than Tab 07 is rendered, by a handler other than Clear All:
\* no report, no download button, no "Session Cleared." message.
OffGate == report' = NoReport /\ download' = NoDownload /\ notice' = NoNotice

\* Clear All emptying the tracks and leaving the text fields.
ClearAllSessionData_TracksOnly ==
    /\ app_data' = [app_data EXCEPT !.tracks = <<>>]
    /\ notice' = SessionCleared
    /\ report' = NoReport
    /\ download' = NoDownload
    /\ batch' = NoBatch
    /\ UNCHANGED <<ingestion_error, banned_file>>

\* Tab 00: Clear All Session Data.
ClearAllSessionData ==
    /\ app_data' = EmptyAppData
    /\ notice' = SessionCleared
    /\ report' = NoReport
    /\ download' = NoDownload
    /\ batch' = NoBatch
    /\ UNCHANGED <<ingestion_error, banned_file>>

\* os.path.splitext(name)[0].lstrip('0123456789 -')
SplitExtRoot(name) ==
    LET dots == {i \in 1..Len(name) : name[i] = "." /\ \E j \in 1..(i - 1) : name[j] # "."}
    IN IF dots = {} THEN name ELSE SubSeq(name, 1, SetMax(dots) - 1)

LStripChars(s, chars) ==
    LET idx == {i \in 1..Len(s) : s[i] \notin chars}
    IN IF idx = {} THEN <<>> ELSE SubSeq(s, SetMin(idx), Len(s))

clean_name(name) == LStripChars(SplitExtRoot(name), {"0", "1", "2", "3", "4", "5", "6", "7", "8", "9", " ", "-"})

\* The body of the loop putting the new track before the others.
AnalyzeOne_Prepend(st, name, o, file) ==
    LET metadata == analyze_audio_file(o, file)
        item(status) == [file |-> name, outcome |-> o, returned |-> metadata,
                         status |-> status, keywords |-> KeywordsRun(o, file)]
    IN IF metadata.type = "none" \/ (metadata.type = "dict" /\ DOMAIN metadata.d = {})
       THEN [st EXCEPT !.items = Append(@, item("skipped"))]
       ELSE IF metadata.type = "list"
       THEN [st EXCEPT !.error = [set |-> TRUE, file |-> name],
                       !.items = Append(@, item("error"))]
       ELSE [st EXCEPT !.tracks =
                           <<[Title |-> Get(metadata.d, "Title", clean_name(name)),
                              Keywords |-> Get(metadata.d, "Keywords", <<>>),
                              TrackDescription |-> Get(metadata.d, "Description", <<>>)]>>
                           \o @,
                       !.items = Append(@, item("appended"))]

\* The body of the loop of "Run AI Analysis" for one uploaded file, from the
\* state st = [tracks, error, items] the earlier files left.
AnalyzeOne(st, name, o, file) ==
    LET metadata == analyze_audio_file(o, file)
        item(status) == [file |-> name, outcome |-> o, returned |-> metadata,
                         status |-> status, keywords |-> KeywordsRun(o, file)]
    IN IF metadata.type = "none" \/ (metadata.type = "dict" /\ DOMAIN metadata.d = {})
       THEN [st EXCEPT !.items = Append(@, item("skipped"))]
       ELSE IF metadata.type = "list"
       THEN [st EXCEPT !.error = [set |-> TRUE, file |-> name],
                       !.items = Append(@, item("error"))]
       ELSE [st EXCEPT !.tracks = Append(@,
                           [Title |-> Get(metadata.d, "Title", clean_name(name)),
                            Keywords |-> Get(metadata.d, "Keywords", <<>>),
                            TrackDescription |-> Get(metadata.d, "Description", <<>>)]),
                       !.items = Append(@, item("appended"))]

\* The loop with the failure of one file ending it.
RECURSIVE AnalysisLoop_AbortOnFailure(_, _, _, _)
AnalysisLoop_AbortOnFailure(st, files, outcomes, file) ==
    IF files = <<>> THEN st
    ELSE LET next == AnalyzeOne(st, Head(files), Head(outcomes), file)
         IN IF next.items[Len(next.items)].status # "appended" THEN next
            ELSE AnalysisLoop_AbortOnFailure(next, Tail(files), Tail(outcomes), file)

\* for uploaded_file in uploaded_files: ...
RECURSIVE AnalysisLoop(_, _, _, _)
AnalysisLoop(st, files, outcomes, file) ==
    IF files = <<>> THEN st
    ELSE AnalysisLoop(AnalyzeOne(st, Head(files), Head(outcomes), file),
                      Tail(files), Tail(outcomes), file)

\* The lists of files the user may have uploaded.
UploadSets == {SubSeq(UploadOrder, 1, n) : n \in 1..MaxBatch} \ {<<>>}

\* What the loop leaves, started from the session's tracks and pinned error.
BatchResult(files, outcomes) ==
    AnalysisLoop([tracks |-> app_data.tracks, error |-> ingestion_error, items |-> <<>>],
                 files, outcomes, banned_file)

\* Tab 01: Run AI Analysis on the uploaded files.
RunAIAnalysis(files, outcomes) ==
    LET st == BatchResult(files, outcomes)
    IN /\ app_data' = [app_data EXCEPT !.tracks = st.tracks]
       /\ ingestion_error' = st.error
       /\ batch' = [ran |-> TRUE, files |-> files, before |-> app_data.tracks,
                    items |-> st.items]
       /\ OffGate
       /\ UNCHANGED banned_file

\* Tab 01: Dismiss Error.
DismissError ==
    /\ ingestion_error.set
    /\ ingestion_error' = NoError
    /\ OffGate
    /\ batch' = NoBatch
    /\ UNCHANGED <<app_data, banned_file>>

\* A row the user adds in the data editor: every cell empty (None).
BlankRow == [Title |-> None, Keywords |-> None, TrackDescription |-> None]

RemoveAt(seq, i) == SubSeq(seq, 1, i - 1) \o SubSeq(seq, i + 1, Len(seq))

\* Tab 01: the data editor (num_rows="dynamic"): the user sets a cell, adds a
\* row or deletes one, and tracks becomes edited_df.to_dict('records').
EditTracks ==
    /\ app_data.tracks # <<>>
    /\ \/ \E i \in 1..Len(app_data.tracks) :
            \/ \E v \in CellTitles :
                 app_data' = [app_data EXCEPT !.tracks[i].Title = v]
            \/ \E v \in CellKeywords :
                 app_data' = [app_data EXCEPT !.tracks[i].Keywords = v]
            \/ \E v \in CellDescriptions :
                 app_data' = [app_data EXCEPT !.tracks[i].TrackDescription = v]
            \/ app_data' = [app_data EXCEPT !.tracks = RemoveAt(@, i)]
       \/ /\ Len(app_data.tracks) < MaxTracks
          /\ app_data' = [app_data EXCEPT !.tracks = Append(@, BlankRow)]
    /\ OffGate
    /\ batch' = NoBatch
    /\ UNCHANGED <<ingestion_error, banned_file>>

\* Tab 02: the data editor with Title and Keywords disabled.
EditDescriptions ==
    /\ app_data.tracks # <<>>
    /\ \E i \in 1..Len(app_data.tracks), v \in CellDescriptions :
         app_data' = [app_data EXCEPT !.tracks[i].TrackDescription = v]
    /\ OffGate
    /\ batch' = NoBatch
    /\ UNCHANGED <<ingestion_error, banned_file>>

\* Tab 02: Generate Descriptions; gs[i] is the model's answer for track i.
GenerateDescriptions(gs) ==
    /\ app_data.tracks # <<>>
    /\ app_data' = [app_data EXCEPT !.tracks =
                       [i \in 1..Len(app_data.tracks) |->
                           [app_data.tracks[i] EXCEPT
                               !.TrackDescription = call_gemini(gs[i])]]]
    /\ OffGate
    /\ batch' = NoBatch
    /\ UNCHANGED <<ingestion_error, banned_file>>

\* A generate button of Tabs 03 to 06: the field becomes what call_gemini
\* returned.
GenerateField(field, g) ==
    /\ app_data' = [app_data EXCEPT ![field] = call_gemini(g)]
    /\ OffGate
    /\ batch' = NoBatch
    /\ UNCHANGED <<ingestion_error, banned_file>>

\* A text area of Tabs 03 to 06: the field becomes the edited text.
EditField(field, text) ==
    /\ app_data' = [app_data EXCEPT ![field] = text]
    /\ OffGate
    /\ batch' = NoBatch
    /\ UNCHANGED <<ingestion_error, banned_file>>

SynthesizeAlbumDescription(g) == GenerateField("album_description", g)
EditAlbumDescription(text) == EditField("album_description", text)
BrainstormNames(g) == GenerateField("album_name", g)
EditAlbumName(text) == EditField("album_name", text)
GenerateMidJourneyPrompts(g) == GenerateField("cover_art", g)
EditCoverArt(text) == EditField("cover_art", text)
GenerateMailChimpMemo(g) == GenerateField("mailchimp_intro", g)
EditMailChimp(text) == EditField("mailchimp_intro", text)

\* Tab 07 compiling the archive whatever the report says.
ExportGate_Ungated(data, file) ==
    LET r == validate_data(data, file)
    IN [report |-> [shown |-> ~r.raised, raised |-> r.raised, passed |-> r.passed,
                    errors |-> r.errors],
        download |-> IF ~r.raised
                     THEN [offered |-> TRUE, zip |-> compile_final_package(data)]
                     ELSE NoDownload]

\* Tab 07: what the page shows for app_data: the report, and the download
\* button with the compiled archive when the report passed. A validate_data
\* that raises ends the script run: nothing more is rendered.
ExportGate(data, file) ==
    LET r == validate_data(data, file)
    IN [report |-> [shown |-> ~r.raised, raised |-> r.raised, passed |-> r.passed,
                    errors |-> r.errors],
        download |-> IF ~r.raised /\ r.passed
                     THEN [offered |-> TRUE, zip |-> compile_final_package(data)]
                     ELSE NoDownload]

\* Tab 07: Final Export Gate.
FinalExportGate ==
    /\ report' = ExportGate(app_data, banned_file).report
    /\ download' = ExportGate(app_data, banned_file).download
    /\ batch' = NoBatch
    /\ notice' = NoNotice
    /\ UNCHANGED <<app_data, ingestion_error, banned_file>>

Next ==
    \/ ClearAllSessionData
    \/ \E files \in UploadSets :
         \E outcomes \in [1..Len(files) -> SessionOutcomes] :
           /\ Len(BatchResult(files, outcomes).tracks) <= MaxTracks
           /\ RunAIAnalysis(files, outcomes)
    \/ DismissError
    \/ EditTracks
    \/ EditDescriptions
    \/ \E gs \in [1..Len(app_data.tracks) -> GenAnswers] : GenerateDescriptions(gs)
    \/ \E g \in GenAnswers : SynthesizeAlbumDescription(g)
    \/ \E t \in AlbumTexts : EditAlbumDescription(t)
    \/ \E g \in GenAnswers : BrainstormNames(g)
    \/ \E t \in AlbumTexts : EditAlbumName(t)
    \/ \E g \in GenAnswers : GenerateMidJourneyPrompts(g)
    \/ \E t \in PlainTexts : EditCoverArt(t)
    \/ \E g \in GenAnswers : GenerateMailChimpMemo(g)
    \/ \E t \in PlainTexts : EditMailChimp(t)
    \/ FinalExportGate

Spec == Init /\ [][Next]_vars

-----------------------------------------------------------------------------
(* One batch ingestion, from the sessions a batch may start in, under      *)
(* every outcome of the analysis.                                          *)

IngestedTrack == [Title |-> TxtTitle, Keywords |-> <<"A", "b", ",", " ", "C", "d">>,
                  TrackDescription |-> TxtTheOk]

InitIngest ==
    /\ app_data \in {EmptyAppData, [EmptyAppData EXCEPT !.tracks = <<IngestedTrack>>]}
    /\ ingestion_error \in {NoError, [set |-> TRUE, file |-> UploadOrder[1]]}
    /\ banned_file \in {AbsentFile, SessionBannedFile}
    /\ report = NoReport
    /\ download = NoDownload
    /\ batch = NoBatch
    /\ notice = NoNotice

NextIngest ==
    /\ ~batch.ran
    /\ \E files \in UploadSets :
         \E outcomes \in [1..Len(files) -> AnalysisOutcomes] :
           RunAIAnalysis(files, outcomes)

IngestSpec == InitIngest /\ [][NextIngest]_vars

-----------------------------------------------------------------------------
(* validate_data as a function: applied once to each content of three      *)
(* families, under each ban file.                                          *)

\* All strs of at most n characters of the alphabet.
Strings(alphabet, n) == UNION {[1..k -> alphabet] : k \in 0..n}

OneTrack(kw, desc) ==
    [EmptyAppData EXCEPT !.tracks = <<[Title |-> TxtTitle, Keywords |-> kw,
                                       TrackDescription |-> desc]>>]

\* One track, every short description.
DescAlphabet == {"a", "A", "n", "t", "h", "e", "x", " ", "\t", "\n", "."}
DescFamily == {OneTrack(<<>>, d) : d \in Strings(DescAlphabet, MaxDescLen)}

\* One track, every short keyword string.
KwAlphabet == {"a", "b", "B", " ", ","}
KwFamily == {OneTrack(k, <<>>) : k \in Strings(KwAlphabet, MaxKwLen)}

\* Up to MaxValidateTracks tracks of a pool, with the album texts of a pool.
KwLongBanned == <<"O", "k", ",", "a", " ", "b", " ", "c", " ", "h", "u", "g", "e", "r",
                  ",", " ", "a", " ", " ", " ", "b", " ">>
PoolTracks ==
    {[Title |-> TxtTitle, Keywords |-> <<"A", "b", "c", ",", " ", "C", "d">>,
      TrackDescription |-> TxtOk],
     [Title |-> <<"u">>, Keywords |-> KwLongBanned, TrackDescription |-> TxtTheOk],
     [Title |-> <<"u">>, Keywords |-> <<",", "E", "p", "i", "c">>,
      TrackDescription |-> <<"-", "a", "n", "!", " ", "o", "k">>],
     [Title |-> TxtTitle, Keywords |-> <<>>, TrackDescription |-> <<" ">>]}
PoolAlbumTexts == {<<>>, <<"H", "u", "g", "e", "r">>, <<"b", "o", "o", "k">>}
PoolFamily ==
    {[tracks |-> t, album_description |-> d, album_name |-> n,
      cover_art |-> <<>>, mailchimp_intro |-> <<>>] :
        t \in UNION {[1..k -> PoolTracks] : k \in 0..MaxValidateTracks},
        d \in PoolAlbumTexts, n \in PoolAlbumTexts}

ValidateFiles ==
    {AbsentFile,
     [exists |-> TRUE, lines |-> << <<" ", "A", "b", " ">>, <<" ">>, <<"o", "k">> >>]}

InitValidate ==
    /\ app_data \in DescFamily \cup KwFamily \cup PoolFamily
    /\ ingestion_error = NoError
    /\ banned_file \in ValidateFiles
    /\ report = NoReport
    /\ download = NoDownload
    /\ batch = NoBatch
    /\ notice = NoNotice

NextValidate == ~report.shown /\ FinalExportGate

ValidateSpec == InitValidate /\ [][NextValidate]_vars

-----------------------------------------------------------------------------
(* process_keywords as a function: one file is analysed whose metadata     *)
(* holds a keyword string of a family, under each ban file and each        *)
(* behaviour of the rewriter; then a second file whose metadata holds the  *)
(* keywords the first run returned; then Tab 07 on the result.             *)

\* Every short keyword string, and longer ones: phrases of four words and
\* more, global bans as words and inside words, repeated phrases.
NormAlphabet == {"a", "B", " ", ",", ";"}
NormPool ==
    {<<"a", " ", "b", " ", "c", " ", "d">>,
     <<"a", " ", "B", " ", "c", " ", "d", " ", "e", ";", "a", " ", "b">>,
     <<"a", "\t", "b", "\t", "c", "\t", "d">>,
     <<"a", " ", "b", " ", "c", " ", "d", ";", "e", " ", "f", " ", "g", " ", "h", ",", "i">>,
     <<"h", "u", "g", "e", "r", ",", "a", " ", "H", "u", "g", "e", ",", "e", "p", "i", "c">>,
     <<"a", " ", "b", ",", "x", " ", "a", "b", "c", ";", "A", " ", "B", ",", "a", " ", "b">>,
     <<"a", " ", "b", " ", "c", " ", "h", "u", "g", "e", ",", "c", " ", "d">>}
NormInputs == Strings(NormAlphabet, MaxKwLen) \cup NormPool

NormFiles ==
    {AbsentFile, [exists |-> TRUE, lines |-> << <<" ", "a", "B", " ">>, <<" ">> >>]}

\* The rewriter fails, fails on its first call and complies on its second,
\* returns nothing, complies, returns five words, returns
\* two words three spaces apart, returns a banned word, returns two phrases.
NormAnswers ==
    {<<RewriterRaises>>,
     <<RewriterRaises, RewriterSays(<<"x", "y", " ", "c", "d">>)>>,
     <<RewriterSays(<<" ", "\n">>)>>,
     <<RewriterSays(<<" ", "x", "y", " ", "c", "d", "\n">>)>>,
     <<RewriterSays(<<"v", " ", "w", " ", "x", " ", "y", " ", "z">>)>>,
     <<RewriterSays(<<"c", " ", " ", " ", "d">>)>>,
     <<RewriterSays(<<"h", "u", "g", "e", " ", "a">>)>>,
     <<RewriterSays(<<"x", ",", " ", "y">>)>>}

\* The behaviours of the rewriter that tell a run on raw apart: all of them
\* when the run calls it, one when it does not.
AnswersFor(raw, file) ==
    IF process_keywords(raw, file, <<RewriterRaises>>).calls = <<>>
    THEN {<<RewriterRaises>>}
    ELSE NormAnswers

KeywordsOutcome(raw, answers) == Outcome("json", DictResult([Keywords |-> raw]), answers)

InitNormalize ==
    /\ app_data = EmptyAppData
    /\ ingestion_error = NoError
    /\ banned_file \in NormFiles
    /\ report = NoReport
    /\ download = NoDownload
    /\ batch = NoBatch
    /\ notice = NoNotice

\* The first file: its metadata holds a keyword string of the family.
AnalyzeKeywords ==
    /\ ~batch.ran
    /\ app_data.tracks = <<>>
    /\ \E raw \in NormInputs :
         \E answers \in AnswersFor(raw, banned_file) :
           RunAIAnalysis(<<UploadOrder[1]>>, <<KeywordsOutcome(raw, answers)>>)

\* The second file: its metadata holds the keywords of the first track.
AnalyzeKeywordsAgain ==
    /\ batch.ran
    /\ Len(app_data.tracks) = 1
    /\ \E answers \in AnswersFor(app_data.tracks[1].Keywords, banned_file) :
         RunAIAnalysis(<<UploadOrder[2]>>,
                       <<KeywordsOutcome(app_data.tracks[1].Keywords, answers)>>)

\* Tab 07 is opened on the tracks the analysis left.
ValidateKeywords == batch.ran /\ FinalExportGate

NextNormalize == AnalyzeKeywords \/ AnalyzeKeywordsAgain \/ ValidateKeywords

NormalizeSpec == InitNormalize /\ [][NextNormalize]_vars

-----------------------------------------------------------------------------
(* compile_final_package as a function: applied once to each content of a  *)
(* family.                                                                 *)

\* Tracks with plain cells, with cells the CSV writer has to quote, with
\* empty cells and with cells left unset.
CompileTracks ==
    {[Title |-> TxtTitle, Keywords |-> <<"A", "b", ",", " ", "C", "d">>,
      TrackDescription |-> TxtTheOk],
     [Title |-> <<"u", "\"", "v">>, Keywords |-> <<"A", "b">>,
      TrackDescription |-> <<"o", "k", ".", "\n", "O", "k", ",">>],
     [Title |-> <<>>, Keywords |-> <<>>, TrackDescription |-> <<>>],
     BlankRow}
CompileTexts == {<<>>, <<"o", "k", "\n", "a", ",", "b">>}
CompileFamily ==
    {[tracks |-> t, album_description |-> d, album_name |-> n,
      cover_art |-> c, mailchimp_intro |-> m] :
        t \in UNION {[1..k -> CompileTracks] : k \in 0..MaxValidateTracks},
        d \in CompileTexts, n \in CompileTexts, c \in CompileTexts, m \in CompileTexts}

InitCompile ==
    /\ app_data \in CompileFamily
    /\ ingestion_error = NoError
    /\ banned_file = AbsentFile
    /\ report = NoReport
    /\ download = NoDownload
    /\ batch = NoBatch
    /\ notice = NoNotice

\* compile_final_package(app_data) is called and its archive kept.
CompileFinalPackage ==
    /\ download.zip = <<>>
    /\ download' = [offered |-> FALSE, zip |-> compile_final_package(app_data)]
    /\ UNCHANGED <<app_data, ingestion_error, banned_file, report, batch, notice>>

CompileSpec == InitCompile /\ [][CompileFinalPackage]_vars

-----------------------------------------------------------------------------
(* Properties of the session (Spec).                                       *)

SectionNames == <<"01 Track Keywords/Track_Keywords.csv",
                  "02 Track Descriptions/Track_Descriptions.csv",
                  "03 Album Description/Album_Description.txt",
                  "04 Album Name/Album_Name.txt",
                  "05 Album Cover Art/MidJourney_Prompts.txt",
                  "06 MailChimp Intro/MailChimp_Copy.txt">>

\* C1. Export gate: whenever an archive is offered for download, validate_data
\* on the current app_data returns passed = True with no error, the report on
\* the page is that result, and the archive is the one compiled from the
\* current app_data.
C1_ExportOnlyAfterPass ==
    download.offered =>
        /\ ~validate_data(app_data, banned_file).raised
        /\ validate_data(app_data, banned_file).passed
        /\ validate_data(app_data, banned_file).errors = <<>>
        /\ report.shown /\ report.passed /\ report.errors = <<>>
        /\ download.zip = compile_final_package(app_data)

\* An archive is offered after an ingestion, a generation and an edit.
C1_Witness ==
    /\ download.offered
    /\ report.passed
    /\ app_data.tracks # <<>>
    /\ app_data.cover_art = TxtOk

\* Tab 07 was visited and the export was refused.
C1_BlockedWitness == report.shown /\ ~report.passed /\ ~download.offered

\* C2 (as claimed). A generate button whose call to the model fails leaves
\* its field as it was: the album description, the album name, the cover-art
\* text, the MailChimp text, and the description of every track whose call
\* failed.
C2_FailedGenerationKeepsValue ==
    [][/\ SynthesizeAlbumDescription(GenFails)
            => app_data'.album_description = app_data.album_description
       /\ BrainstormNames(GenFails) => app_data'.album_name = app_data.album_name
       /\ GenerateMidJourneyPrompts(GenFails) => app_data'.cover_art = app_data.cover_art
       /\ GenerateMailChimpMemo(GenFails)
            => app_data'.mailchimp_intro = app_data.mailchimp_intro
       /\ \A gs \in [1..Len(app_data.tracks) -> GenAnswers] :
            GenerateDescriptions(gs) =>
                \A i \in 1..Len(app_data.tracks) :
                    gs[i].raises => app_data'.tracks[i].TrackDescription
                                    = app_data.tracks[i].TrackDescription]_vars

\* C5. Whenever an archive is offered, tracks is non-empty and the archive
\* holds the six sections, both track tables among them, in their order.
C5_ExportHasTracksAndSixSections ==
    download.offered =>
        /\ app_data.tracks # <<>>
        /\ Len(download.zip) = 6
        /\ \A i \in 1..6 : download.zip[i].name = SectionNames[i]

\* An archive of six sections is offered for a session with a track.
C5_Witness ==
    /\ download.offered
    /\ Len(app_data.tracks) >= 1
    /\ Len(download.zip) = 6
    /\ download.zip[1].name = SectionNames[1]

-----------------------------------------------------------------------------
(* Properties of one batch ingestion (IngestSpec).                         *)

\* The analysis of an item succeeded: the model's text parsed to a metadata
\* record (a non-empty dict).
Succeeded(item) ==
    /\ item.outcome.kind = "json"
    /\ item.outcome.value.type = "dict"
    /\ DOMAIN item.outcome.value.d # {}

\* C3. After "Run AI Analysis", every uploaded file was analysed, in upload
\* order, whatever happened to the files before it, and the tracks grew by
\* one track per file whose analysis succeeded.
C3_BatchIsolatesFailures ==
    batch.ran =>
        /\ Len(batch.items) = Len(batch.files)
        /\ \A i \in 1..Len(batch.items) :
             /\ batch.items[i].file = batch.files[i]
             /\ Succeeded(batch.items[i]) => batch.items[i].status = "appended"
        /\ Len(app_data.tracks)
             = Len(batch.before)
               + Cardinality({i \in 1..Len(batch.items) : Succeeded(batch.items[i])})

\* A batch whose first file failed and whose second file gave a track.
C3_Witness ==
    /\ batch.ran
    /\ Len(batch.items) = 2
    /\ ~Succeeded(batch.items[1])
    /\ Succeeded(batch.items[2])
    /\ batch.items[2].status = "appended"
    /\ Len(app_data.tracks) = Len(batch.before) + 1

\* C4 (as claimed). After a batch, the session holds a failure record for
\* every file whose analysis failed (the only such record of the session is
\* ingestion_error, which names one file).
C4_EveryFailureSurfaced ==
    batch.ran =>
        \A i \in 1..Len(batch.items) :
            ~Succeeded(batch.items[i])
                => ingestion_error.set /\ ingestion_error.file = batch.items[i].file

-----------------------------------------------------------------------------
(* Properties of validate_data (ValidateSpec): report is what validate_data *)
(* returned for app_data under banned_file.                                *)

HasError(m) == \E p \in 1..Len(report.errors) : report.errors[p] = m
HasErrorOfKind(k) == \E p \in 1..Len(report.errors) : report.errors[p].kind = k

\* The entries of the ban list: the five global words, and each non-blank
\* line of the catalog's file, trimmed and lowercased.
BanEntries ==
    global_bans
    \cup (IF banned_file.exists
          THEN {LowerStr(Strip(banned_file.lines[i])) : i \in 1..Len(banned_file.lines)}
               \ {<<>>}
          ELSE {})

\* Some ban entry occurs in the lowercased text.
HoldsBan(text) == \E b \in BanEntries : Contains(LowerStr(text), b)

\* The keywords of track i: the pieces of its keyword field between commas,
\* trimmed.
KeywordsOf(i) ==
    LET kw_str == app_data.tracks[i].Keywords
    IN IF kw_str = None \/ kw_str = <<>> THEN <<>> ELSE StripAll(SplitOn(kw_str, {","}))

TitleOf(i) == app_data.tracks[i].Title

\* C6. validate_data on a content without tracks returns passed = False and
\* the error list holds the "no track data" error, whatever the album
\* description, the album name and the ban file.
C6_EmptyTracksFail ==
    (report.shown /\ app_data.tracks = <<>>)
        => ~report.passed /\ HasError(NoTracksMsg)

\* validate_data was applied to a content without tracks whose album texts
\* hold bans of their own.
C6_Witness ==
    /\ report.shown
    /\ app_data.tracks = <<>>
    /\ app_data.album_description # <<>>
    /\ app_data.album_name # <<>>
    /\ banned_file.exists
    /\ Len(report.errors) = 3

\* The description opens with an article: its first token between
\* whitespace (space, tab or newline), without its leading and trailing
\* non-word characters and lowercased, is "a", "an" or "the".
OpensWithArticle(desc) ==
    /\ SplitWords(desc) # <<>>
    /\ StripNonWord(LowerStr(SplitWords(desc)[1])) \in Articles

\* C7 (as claimed). A track's description gets the Antigravity error exactly
\* when it opens with an article.
C7_AntigravityOnAnyWhitespace ==
    (report.shown /\ Len(app_data.tracks) = 1)
        => (HasErrorOfKind("antigravity")
              <=> OpensWithArticle(app_data.tracks[1].TrackDescription))

\* The violations of the content, one per failed check: <<kind, track, keyword>>.
SpaceViolations ==
    UNION {{<<"too_many_spaces", i, j>> :
              j \in {k \in 1..Len(KeywordsOf(i)) : Count(KeywordsOf(i)[k], " ") > 2}} :
           i \in 1..Len(app_data.tracks)}
BanViolations ==
    UNION {{<<"banned_word", i, j>> :
              j \in {k \in 1..Len(KeywordsOf(i)) : HoldsBan(KeywordsOf(i)[k])}} :
           i \in 1..Len(app_data.tracks)}
DescriptionFlagged(i) ==
    LET desc == Strip(app_data.tracks[i].TrackDescription)
    IN desc # <<>> /\ FirstWord(desc) \in Articles
DescriptionViolations ==
    {<<"antigravity", i, 0>> : i \in {k \in 1..Len(app_data.tracks) : DescriptionFlagged(k)}}
AlbumViolations ==
    (IF HoldsBan(app_data.album_description)
     THEN {<<"album_description_banned", 0, 0>>} ELSE {})
    \cup (IF HoldsBan(app_data.album_name) THEN {<<"album_name_banned", 0, 0>>} ELSE {})
    \cup (IF app_data.tracks = <<>> THEN {<<"no_tracks", 0, 0>>} ELSE {})
Violations == SpaceViolations \cup BanViolations \cup DescriptionViolations
              \cup AlbumViolations

\* The message of a violation.
MessageOf(v) ==
    IF v[1] \in {"too_many_spaces", "banned_word"}
    THEN Msg(v[1], TitleOf(v[2]), KeywordsOf(v[2])[v[3]])
    ELSE IF v[1] = "antigravity"
    THEN Msg(v[1], TitleOf(v[2]), FirstWord(Strip(app_data.tracks[v[2]].TrackDescription)))
    ELSE Msg(v[1], <<>>, <<>>)

\* C8. validate_data does not short-circuit: the error list holds the message
\* of every violation and as many messages as there are violations (a keyword
\* with more than 2 spaces that holds a ban gives two), and passed is True
\* exactly when the list is empty.
C8_OneMessagePerViolation ==
    report.shown =>
        /\ \A v \in Violations : HasError(MessageOf(v))
        /\ Len(report.errors) = Cardinality(Violations)
        /\ report.passed <=> (report.errors = <<>>)

\* A keyword with both violations, in a content with a description violation
\* and two album violations besides.
C8_Witness ==
    /\ report.shown
    /\ \E v \in SpaceViolations : <<"banned_word", v[2], v[3]>> \in BanViolations
    /\ DescriptionViolations # {}
    /\ HoldsBan(app_data.album_description) /\ HoldsBan(app_data.album_name)
    /\ Len(app_data.tracks) = 2
    /\ ~report.passed

\* The errors in the fixed order: per track in sequence, per keyword in comma
\* order "too many spaces" then "banned word", then the track's description
\* error; then the album description, the album name, "no track data".
KeywordErrors(i, j) ==
    (IF <<"too_many_spaces", i, j>> \in SpaceViolations
     THEN <<MessageOf(<<"too_many_spaces", i, j>>)>> ELSE <<>>)
    \o (IF <<"banned_word", i, j>> \in BanViolations
        THEN <<MessageOf(<<"banned_word", i, j>>)>> ELSE <<>>)
TrackErrors(i) ==
    Concat([j \in 1..Len(KeywordsOf(i)) |-> KeywordErrors(i, j)])
    \o (IF DescriptionFlagged(i) THEN <<MessageOf(<<"antigravity", i, 0>>)>> ELSE <<>>)
ErrorsInOrder ==
    Concat([i \in 1..Len(app_data.tracks) |-> TrackErrors(i)])
    \o (IF HoldsBan(app_data.album_description) THEN <<AlbumDescMsg>> ELSE <<>>)
    \o (IF HoldsBan(app_data.album_name) THEN <<AlbumNameMsg>> ELSE <<>>)
    \o (IF app_data.tracks = <<>> THEN <<NoTracksMsg>> ELSE <<>>)

\* C9. The error list is the errors in the fixed order.
C9_ErrorsInFixedOrder == report.shown => report.errors = ErrorsInOrder

\* Two tracks with keyword and description errors, and both album errors.
C9_Witness ==
    /\ report.shown
    /\ Len(app_data.tracks) = 2
    /\ \A i \in 1..2 : Len(TrackErrors(i)) >= 2 /\ DescriptionFlagged(i)
    /\ \E i \in 1..2, j \in 1..3 : Len(KeywordErrors(i, j)) = 2
    /\ HasError(AlbumDescMsg) /\ HasError(AlbumNameMsg)

\* C10. The ban checks are substring checks over the global and the catalog
\* entries: a keyword of a track, the album description and the album name
\* get their banned-word error exactly when some entry occurs in their
\* lowercased text.
C10_BanChecksAreSubstringChecks ==
    report.shown =>
        /\ \A i \in 1..Len(app_data.tracks) : \A j \in 1..Len(KeywordsOf(i)) :
             HasError(Msg("banned_word", TitleOf(i), KeywordsOf(i)[j]))
                <=> HoldsBan(KeywordsOf(i)[j])
        /\ HasError(AlbumDescMsg) <=> HoldsBan(app_data.album_description)
        /\ HasError(AlbumNameMsg) <=> HoldsBan(app_data.album_name)

\* A keyword flagged for a catalog entry inside a longer word, and an album
\* description flagged for a global word inside a longer word.
C10_Witness ==
    /\ report.shown
    /\ \E i \in 1..Len(app_data.tracks) : \E j \in 1..Len(KeywordsOf(i)) :
         /\ HasError(Msg("banned_word", TitleOf(i), KeywordsOf(i)[j]))
         /\ LowerStr(KeywordsOf(i)[j]) \notin BanEntries
         /\ ~\E b \in global_bans : Contains(LowerStr(KeywordsOf(i)[j]), b)
    /\ HasError(AlbumDescMsg)
    /\ LowerStr(app_data.album_description) \notin BanEntries

-----------------------------------------------------------------------------
(* Properties of process_keywords (NormalizeSpec).                         *)

\* The run of process_keywords of the last analysis.
KeywordsWereProcessed == batch.ran /\ batch.items[1].keywords.called
LastRun == batch.items[1].keywords.run

\* The phrase holds a global ban as one of its lowercase words, or a ban of
\* the catalog anywhere in its lowercase text.
HasGlobalBanWord(p) ==
    \E i \in 1..Len(SplitWords(LowerStr(p))) : SplitWords(LowerStr(p))[i] \in global_bans
HasCatalogBanInside(p) == \E b \in CatalogBans(banned_file) : Contains(LowerStr(p), b)
Survives(p) == ~HasGlobalBanWord(p) /\ ~HasCatalogBanInside(p)

\* A surviving phrase as the output shows it: cut to its first three words
\* when it has more, in title case.
CasedPhrase(p) ==
    LET w == SplitWords(LowerStr(p))
    IN IF Len(w) > 3 THEN Title(JoinWith(SubSeq(w, 1, 3), <<" ">>)) ELSE Title(p)

CommaSpace == <<",", " ">>

\* C11. The output of process_keywords is made of exactly the phrases (as
\* rewritten) that hold no global ban as a word and no catalog ban as a
\* substring: every other phrase is left out whole, and a phrase holding a
\* global ban only inside a longer word is kept.
C11_BanFilter ==
    KeywordsWereProcessed =>
        LET kept == SelectSeq(LastRun.corrected_keywords, Survives)
        IN LastRun.result
             = JoinWith([i \in 1..Len(kept) |-> CasedPhrase(kept[i])], CommaSpace)

\* "huger,a Huge,epic" came out as "Huger".
C11_Witness ==
    /\ KeywordsWereProcessed
    /\ Len(LastRun.corrected_keywords) = 3
    /\ HasGlobalBanWord(LastRun.corrected_keywords[2])
    /\ Survives(LastRun.corrected_keywords[1])
    /\ LastRun.result = <<"H", "u", "g", "e", "r">>

\* A phrase holding the catalog's ban inside a word was dropped, the other kept.
C11_CatalogWitness ==
    /\ KeywordsWereProcessed
    /\ Len(LastRun.corrected_keywords) = 2
    /\ HasCatalogBanInside(LastRun.corrected_keywords[1])
    /\ ~HasGlobalBanWord(LastRun.corrected_keywords[1])
    /\ LastRun.result = <<"B">>

\* The phrases of the returned string.
OutPhrases ==
    IF LastRun.result = <<>> THEN <<>> ELSE StripAll(SplitOn(LastRun.result, {","}))

\* No phrase came back from the rewriter with a comma in it (such a phrase
\* reads as several phrases in the returned string).
NoCommaRewritten ==
    \A i \in 1..Len(LastRun.corrected_keywords) :
        ~Contains(LastRun.corrected_keywords[i], <<",">>)

SurvivorIndexes ==
    {i \in 1..Len(LastRun.corrected_keywords) : Survives(LastRun.corrected_keywords[i])}
Rank(i) == Cardinality({j \in SurvivorIndexes : j <= i})

\* C12. The returned string holds one phrase per surviving input phrase, in
\* the order of the input: the k-th phrase of the output is the k-th survivor,
\* whether or not an earlier phrase has the same text.
C12_OrderKeptNoDedup ==
    (KeywordsWereProcessed /\ NoCommaRewritten) =>
        /\ Len(OutPhrases) = Cardinality(SurvivorIndexes)
        /\ \A i \in SurvivorIndexes :
             OutPhrases[Rank(i)] = CasedPhrase(LastRun.corrected_keywords[i])

\* Four phrases survived, the first, third and fourth with the same text,
\* the second with another.
C12_Witness ==
    /\ KeywordsWereProcessed
    /\ Len(LastRun.kw_list) = 4
    /\ Len(OutPhrases) = 4
    /\ OutPhrases[1] = OutPhrases[3]
    /\ OutPhrases[3] = OutPhrases[4]
    /\ OutPhrases[1] # OutPhrases[2]

\* The phrases of a keyword string: its pieces between commas and
\* semicolons, trimmed, the empty ones left out.
PhrasesOf(raw) == SelectSeq(StripAll(SplitOn(raw, {",", ";"})), NonEmpty)
WordsOf(p) == SplitWords(p)

\* Every phrase of the input has at most three words and survives the bans.
ShortAndClean(raw) ==
    \A i \in 1..Len(PhrasesOf(raw)) :
        Len(WordsOf(PhrasesOf(raw)[i])) <= 3 /\ Survives(PhrasesOf(raw)[i])

\* C13 (as claimed). For an input whose phrases have at most three words
\* each and hold no banned word, process_keywords returns those phrases in
\* title case joined with ", ", as many and in the same order, and the
\* rewriter is not called.
C13_CleanInputOnlyCased ==
    (KeywordsWereProcessed /\ ShortAndClean(batch.items[1].keywords.raw)) =>
        LET phrases == PhrasesOf(batch.items[1].keywords.raw)
        IN /\ LastRun.calls = <<>>
           /\ LastRun.result
                = JoinWith([i \in 1..Len(phrases) |-> Title(phrases[i])], CommaSpace)

\* No phrase of the keyword string has more than three words.
NoOverLengthPhrase(raw) ==
    \A i \in 1..Len(PhrasesOf(raw)) : Len(WordsOf(PhrasesOf(raw)[i])) <= 3

\* C14 (as claimed). For an input x with no phrase of more than three words,
\* processing the keywords that process_keywords returned for x returns them
\* unchanged: the second track's keywords are those of the first.
C14_Idempotent ==
    [][(/\ KeywordsWereProcessed
        /\ NoOverLengthPhrase(batch.items[1].keywords.raw)
        /\ AnalyzeKeywordsAgain)
       => app_data'.tracks[2].Keywords = app_data.tracks[1].Keywords]_vars

\* C15 (as claimed). The rewriter is called for exactly the phrases of four
\* words or more, in their order, and for no phrase of one to three words.
C15_RewriterCalledOnFourWords ==
    KeywordsWereProcessed =>
        LET long(p) == Len(WordsOf(p)) >= 4
        IN LastRun.calls = SelectSeq(LastRun.kw_list, long)

FirstThree(w) == IF Len(w) > 3 THEN SubSeq(w, 1, 3) ELSE w

\* C16. Whatever the rewriter did, no phrase of the returned string has more
\* than three words, and a surviving phrase shows as its first three words.
C16_AtMostThreeWords ==
    KeywordsWereProcessed =>
        /\ \A k \in 1..Len(OutPhrases) : Len(WordsOf(OutPhrases[k])) <= 3
        /\ NoCommaRewritten =>
             \A i \in SurvivorIndexes :
                 WordsOf(LowerStr(OutPhrases[Rank(i)]))
                   = FirstThree(WordsOf(LowerStr(LastRun.corrected_keywords[i])))

\* The rewriter answered five words and three came out.
C16_Witness ==
    /\ KeywordsWereProcessed
    /\ Len(LastRun.calls) = 1
    /\ Len(LastRun.corrected_keywords) = 1
    /\ Len(WordsOf(LastRun.corrected_keywords[1])) = 5
    /\ LastRun.result = <<"V", " ", "W", " ", "X">>

\* The rewriter failed on a phrase of five words and three came out.
C16_FallbackWitness ==
    /\ KeywordsWereProcessed
    /\ Len(LastRun.calls) = 1
    /\ batch.items[1].outcome.answers[1].raises
    /\ LastRun.corrected_keywords[1] = LastRun.kw_list[1]
    /\ Len(WordsOf(LastRun.kw_list[1])) = 5
    /\ Len(WordsOf(OutPhrases[1])) = 3

-----------------------------------------------------------------------------
(* Properties of compile_final_package (CompileSpec).                      *)

Compiled == download.zip # <<>>

\* C17. The archive compiled from a content with at least one track has
\* exactly the six sections, under their names and in their order, and each
\* text section holds its field, an empty field giving an empty document.
C17_SixNamedSections ==
    (Compiled /\ app_data.tracks # <<>>) =>
        /\ Len(download.zip) = 6
        /\ \A i \in 1..6 : download.zip[i].name = SectionNames[i]
        /\ download.zip[3].content = app_data.album_description
        /\ download.zip[4].content = app_data.album_name
        /\ download.zip[5].content = app_data.cover_art
        /\ download.zip[6].content = app_data.mailchimp_intro

\* Two tracks and four empty text fields gave six sections, four of them
\* empty documents.
C17_Witness ==
    /\ Compiled
    /\ Len(app_data.tracks) = 2
    /\ app_data.album_description = <<>> /\ app_data.album_name = <<>>
    /\ app_data.cover_art = <<>> /\ app_data.mailchimp_intro = <<>>
    /\ Len(download.zip) = 6
    /\ \A i \in 3..6 : download.zip[i].content = <<>>

\* A CSV text read back: its rows, each the sequence of its fields. A
\* character is inside quotes when an odd number of quote characters come
\* before it; outside quotes a comma ends a field and a line break ends a
\* field and its row. A quoted field is read without its outer quotes, its
\* doubled quotes as one.
Ascending(S) ==
    [k \in 1..Cardinality(S) |-> CHOOSE x \in S : Cardinality({y \in S : y <= x}) = k]
QuotesBefore(text, i) == Cardinality({j \in 1..(i - 1) : text[j] = "\""})
Separators(text) ==
    {i \in 1..Len(text) : text[i] \in {",", "\n"} /\ QuotesBefore(text, i) % 2 = 0}
Unquoted(f) ==
    LET kept == {i \in 1..Len(f) :
                    \/ f[i] # "\""
                    \/ QuotesBefore(f, i) % 2 = 0 /\ QuotesBefore(f, i) >= 2}
    IN [k \in 1..Cardinality(kept) |-> f[Ascending(kept)[k]]]
FieldEndingAt(text, i) ==
    LET before == {j \in Separators(text) : j < i}
        start == IF before = {} THEN 1 ELSE SetMax(before) + 1
    IN Unquoted(SubSeq(text, start, i - 1))
RowEndingAt(text, i) ==
    LET before == {j \in Separators(text) : j < i /\ text[j] = "\n"}
        start == IF before = {} THEN 0 ELSE SetMax(before)
        ends == Ascending({j \in Separators(text) : start < j /\ j <= i})
    IN [k \in 1..Len(ends) |-> FieldEndingAt(text, ends[k])]
RowsOf(text) ==
    LET ends == Ascending({i \in Separators(text) : text[i] = "\n"})
    IN [r \in 1..Len(ends) |-> RowEndingAt(text, ends[r])]

\* A cell as a table shows it: an unset cell is an empty field.
CellText(v) == IF v = None THEN <<>> ELSE v

\* The table of one column of the tracks: the header row, then one row per
\* track in the order of the tracks.
ExpectedRows(header, column) ==
    << <<<<"T", "i", "t", "l", "e">>, header>> >>
    \o [i \in 1..Len(app_data.tracks) |->
           <<CellText(app_data.tracks[i].Title), CellText(app_data.tracks[i][column])>>]

\* C18. Read back, the keyword table and the description table hold, after
\* the header, one row per track in track order, row i with track i's Title
\* and its Keywords (its Track Description); compiling again gives the same
\* tables.
C18_TablesMirrorTracks ==
    (Compiled /\ app_data.tracks # <<>>) =>
        /\ RowsOf(download.zip[1].content) = ExpectedRows(KeywordsHeader, "Keywords")
        /\ RowsOf(download.zip[2].content)
             = ExpectedRows(DescriptionHeader, "TrackDescription")
        /\ compile_final_package(app_data)[1] = download.zip[1]
        /\ compile_final_package(app_data)[2] = download.zip[2]

\* Two different tracks, one with a quote in its title and a line break in
\* its description, read back as rows two and three of both tables.
C18_Witness ==
    /\ Compiled
    /\ Len(app_data.tracks) = 2
    /\ app_data.tracks[1] # app_data.tracks[2]
    /\ Contains(app_data.tracks[2].Title, <<"\"">>)
    /\ Len(RowsOf(download.zip[2].content)) = 3
    /\ RowsOf(download.zip[1].content)[3][1] = app_data.tracks[2].Title
    /\ RowsOf(download.zip[2].content)[3][2] = app_data.tracks[2].TrackDescription

-----------------------------------------------------------------------------
(* No fatal error path (Spec).                                             *)

\* C19 (as claimed). Tab 07 never ends in an exception: validate_data
\* returns a report for every content the session can hold, unset Keywords
\* and Track Description cells included.
C19_NoFatalErrorPath == ~report.raised

-----------------------------------------------------------------------------
(* The order of ingestion (IngestSpec).                                    *)

\* The track of a file whose analysis succeeded: the metadata's title (the
\* cleaned file name when it has none), keywords and description.
NewTrackOf(item) ==
    [Title |-> IF "Title" \in DOMAIN item.returned.d
               THEN item.returned.d.Title
               ELSE clean_name(item.file),
     Keywords |-> IF "Keywords" \in DOMAIN item.returned.d
                  THEN item.returned.d.Keywords ELSE <<>>,
     TrackDescription |-> IF "Description" \in DOMAIN item.returned.d
                          THEN item.returned.d.Description ELSE <<>>]

SucceededIndexes == {i \in 1..Len(batch.items) : Succeeded(batch.items[i])}

\* C20. After a batch, the tracks are those from before, unchanged and
\* first, followed by one track per file whose analysis succeeded, in the
\* order of the upload.
C20_AppendedInUploadOrder ==
    batch.ran =>
        app_data.tracks
          = batch.before
            \o [k \in 1..Cardinality(SucceededIndexes) |->
                   NewTrackOf(batch.items[Ascending(SucceededIndexes)[k]])]

\* Two files gave two different tracks after the one that was there.
C20_Witness ==
    /\ batch.ran
    /\ Len(batch.before) = 1
    /\ Len(batch.files) = 2
    /\ Len(app_data.tracks) = 3
    /\ app_data.tracks[1] = batch.before[1]
    /\ app_data.tracks[2].Title = clean_name(UploadOrder[1])
    /\ app_data.tracks[3].Title = clean_name(UploadOrder[2])

-----------------------------------------------------------------------------
(* The rewriter's failures (NormalizeSpec).                                *)

\* The phrases of the input the first loop hands to the rewriter, and the
\* answer each of them got: the k-th call got the k-th answer.
SentIndexes == {i \in 1..Len(LastRun.kw_list) : Count(LastRun.kw_list[i], " ") > 2}
AnswerTo(i) ==
    AnswerAt(batch.items[1].outcome.answers, Cardinality({j \in SentIndexes : j <= i}))
RewriteFailed(i) == AnswerTo(i).raises \/ Strip(AnswerTo(i).text) = <<>>

Occurrences(seq, p) == Cardinality({k \in 1..Len(seq) : seq[k] = p})

\* C21. A phrase whose rewrite raised or came back empty goes on as it was;
\* the rewriter is called no more often for a phrase than the phrase occurs
\* in the input; every phrase of the input is carried on, those never sent
\* as they were, those rewritten as the answer's text; and when every
\* rewrite failed the result is the surviving original phrases, cut and cased.
C21_FallbackWithoutRetry ==
    KeywordsWereProcessed =>
        /\ Len(LastRun.corrected_keywords) = Len(LastRun.kw_list)
        /\ \A k \in 1..Len(LastRun.calls) :
             Occurrences(LastRun.calls, LastRun.calls[k])
               <= Occurrences(LastRun.kw_list, LastRun.calls[k])
        /\ \A i \in 1..Len(LastRun.kw_list) :
             LastRun.corrected_keywords[i]
               = IF i \in SentIndexes /\ ~RewriteFailed(i)
                 THEN Strip(AnswerTo(i).text)
                 ELSE LastRun.kw_list[i]
        /\ (\A i \in SentIndexes : RewriteFailed(i)) =>
             LET kept == SelectSeq(LastRun.kw_list, Survives)
             IN LastRun.result
                  = JoinWith([k \in 1..Len(kept) |-> CasedPhrase(kept[k])], CommaSpace)

\* Of three phrases the first was sent and its rewrite raised, the second
\* was sent and rewritten, the third was not sent: the first came out as its
\* own first three words.
C21_Witness ==
    /\ KeywordsWereProcessed
    /\ Len(LastRun.kw_list) = 3
    /\ SentIndexes = {1, 2}
    /\ AnswerTo(1).raises /\ ~RewriteFailed(2)
    /\ Len(LastRun.calls) = 2
    /\ LastRun.corrected_keywords[1] = LastRun.kw_list[1]
    /\ LastRun.corrected_keywords[2] # LastRun.kw_list[2]
    /\ Len(OutPhrases) = 3
    /\ OutPhrases[1] = <<"A", " ", "B", " ", "C">>

\* The rewriter returned only whitespace for the one phrase sent: the phrase
\* came out as its own first three words.
C21_EmptyAnswerWitness ==
    /\ KeywordsWereProcessed
    /\ Len(LastRun.kw_list) = 1
    /\ SentIndexes = {1}
    /\ ~AnswerTo(1).raises /\ RewriteFailed(1)
    /\ Len(WordsOf(LastRun.kw_list[1])) = 4
    /\ LastRun.result = <<"A", " ", "B", " ", "C">>

-----------------------------------------------------------------------------
(* analyze_audio_file seen from its caller (IngestSpec).                   *)

\* The analysis of the item got as far as a parsed metadata record.
ParsedRecord(item) == item.outcome.kind = "json" /\ item.outcome.value.type = "dict"

\* C22. For every file of a batch: when the upload failed, the file ended in
\* state FAILED, the generation failed or the text was not JSON, the caller
\* got no result and no exception (the file is skipped, no error is pinned
\* for it); when the text parsed to a record, the caller got that record with
\* its keyword string replaced by what process_keywords returns for it, the
\* other fields as generated.
C22_AnalyzeReturnsNoneOrNormalized ==
    batch.ran =>
        \A i \in 1..Len(batch.items) :
            LET item == batch.items[i]
            IN /\ item.outcome.kind \in FailureKinds =>
                    /\ item.returned = NoResult
                    /\ item.status = "skipped"
               /\ ParsedRecord(item) =>
                    /\ item.returned.type = "dict"
                    /\ DOMAIN item.returned.d = DOMAIN item.outcome.value.d
                    /\ \A f \in DOMAIN item.returned.d :
                         item.returned.d[f]
                           = IF f = "Keywords" /\ item.outcome.value.d[f] # None
                             THEN process_keywords(item.outcome.value.d[f], banned_file,
                                                   item.outcome.answers).result
                             ELSE item.outcome.value.d[f]

\* A batch of two files: the first ended in state FAILED and gave nothing,
\* the second came back with keywords the normaliser had changed.
C22_Witness ==
    /\ batch.ran
    /\ Len(batch.items) = 2
    /\ batch.items[1].outcome.kind = "file_failed"
    /\ batch.items[1].returned = NoResult
    /\ ParsedRecord(batch.items[2])
    /\ batch.items[2].keywords.called
    /\ batch.items[2].returned.d.Keywords # batch.items[2].outcome.value.d.Keywords
    /\ batch.items[2].returned.d.Keywords = batch.items[2].keywords.run.result

-----------------------------------------------------------------------------
(* Reset (Spec).                                                           *)

HasNoTracksError(errors) == \E p \in 1..Len(errors) : errors[p] = NoTracksMsg

\* C23. On the page that "Clear All Session Data" leaves, whatever the
\* session held: app_data has no track and empty album description, album
\* name, cover-art text and MailChimp text; validate_data on it fails with
\* the "no track data" error, and Tab 07 opened next shows no download.
C23_ResetRebuildsFromScratch ==
    notice = SessionCleared =>
        /\ app_data.tracks = <<>>
        /\ app_data.album_description = <<>>
        /\ app_data.album_name = <<>>
        /\ app_data.cover_art = <<>>
        /\ app_data.mailchimp_intro = <<>>
        /\ ~validate_data(app_data, banned_file).raised
        /\ ~validate_data(app_data, banned_file).passed
        /\ HasNoTracksError(validate_data(app_data, banned_file).errors)
        /\ ~ExportGate(app_data, banned_file).download.offered

\* The session was cleared while an ingestion error was pinned: the content
\* is empty, the pinned error is still there.
C23_Witness ==
    /\ notice = SessionCleared
    /\ ingestion_error.set
    /\ app_data = EmptyAppData

-----------------------------------------------------------------------------
(* The normaliser's output under the validator (NormalizeSpec).            *)

\* C24 (as claimed). Tab 07 opened on tracks whose Keywords are what
\* process_keywords returned reports no "too many spaces" error.
C24_OutputPassesLengthCheck ==
    report.shown => ~HasErrorOfKind("too_many_spaces")

=============================================================================
